---- MODULE Spec2Model ----
(***************************************************************************)
(* Model of auth.py: a UDP client of a fixed-layout authentication         *)
(* protocol.  One run of the script is modelled from the parsed command    *)
(* line to the end of the process.  Byte strings are sequences of numbers  *)
(* in 0..255 and text strings are sequences of character codes.            *)
(***************************************************************************)
EXTENDS Integers, Sequences, FiniteSets, TLC

VARIABLES
    args,        \* the parsed command line: command and its options
    pc,          \* position of the script
    payload,     \* the encoded request (sendPayload's payload parameter)
    attempts,    \* sendPayload's local attempts
    res,         \* sendPayload's local res
    sendCalls,   \* history: number of sock.send calls
    recvCalls,   \* history: number of sock.recv calls
    timeouts,    \* history: number of socket.timeout exceptions caught
    faults,      \* history: number of other OSErrors send and recv raised
    sent,        \* history: the datagrams handed to the network
    rcvd,        \* history: the datagrams sock.recv returned
    exitCode,    \* << >> while running, then << process exit status >>
    outcome,     \* how the run ended, "running" before
    errCode,     \* << code >> printed with the server error, << >> otherwise
    errMsg,      \* message printed with the server error
    result,      \* the response record built by the command, NoResult otherwise
    msgCode,     \* argument of a stand-alone getServerErrorMsg call
    msgOut,      \* its return value
    maxAttempts, \* the attempts argument sendPayload is called with
    gas,         \* the <GAS> option of a gtv command line, as typed
    built        \* the GroupTokenValidation __main__ builds from it

vars == << args, pc, payload, attempts, res, sendCalls, recvCalls, timeouts, faults,
           sent, rcvd, exitCode, outcome, errCode, errMsg, result,
           msgCode, msgOut, maxAttempts, gas, built >>

(***************************************************************************)
(* Bounds of the model.                                                    *)
(***************************************************************************)
MaxGroup == 2      \* longest member list on the command line
MaxN == 2          \* largest declared group size on the gtr command line
MaxRawLen == 5     \* longest short reply the server model sends
MaxSendCalls == 8  \* send calls after which a run is no longer followed
MaxAttemptsArg == 6  \* largest attempts argument of a direct sendPayload call
MaxPieces == 3     \* most '+'-separated pieces of a typed <GAS>

(***************************************************************************)
(* Program constants.                                                      *)
(***************************************************************************)
DefaultBufSize == 4096
DefaultAttempts == 5
IdWidth == 12
TokenWidth == 64
SasWidth == 80
ErrorType == 256
ErrorLen == 4
ExitSocket == 1
ExitChannel == 2
ExitNoResponse == 3
ExitServerError == 4
ExitOk == 0

NoResult == [kind |-> "none"]
NoMsg == "none"

(***************************************************************************)
(* Bytes and struct packing.                                               *)
(***************************************************************************)
Rep(b, k) == [i \in 1..k |-> b]

Take(s, k) == IF Len(s) <= k THEN s ELSE SubSeq(s, 1, k)

\* str.ljust(w): pads with spaces, never shortens
ljust(s, w) == IF Len(s) >= w THEN s ELSE s \o Rep(32, w - Len(s))

\* bytes(s, encoding="ascii") raises UnicodeEncodeError on a code above 127
IsAscii(s) == \A i \in 1..Len(s) : s[i] < 128

\* struct "<w>s": truncates a longer value, pads a shorter one with NUL bytes
PackS(b, w) == IF Len(b) >= w THEN SubSeq(b, 1, w) ELSE b \o Rep(0, w - Len(b))

\* struct "!h": big-endian signed 16 bits; struct.error outside the range
InH(v) == v >= -32768 /\ v <= 32767

PackH(v) ==
    LET u == IF v < 0 THEN v + 65536 ELSE v
    IN  << u \div 256, u % 256 >>

UnpackH(b) ==
    LET u == b[1] * 256 + b[2]
    IN  IF u >= 32768 THEN u - 65536 ELSE u

\* struct "!i": big-endian signed 32 bits
PackI(v) ==
    LET u == IF v < 0 THEN (v + 2147483647) + 1 ELSE v
        top == (u \div 16777216) + (IF v < 0 THEN 128 ELSE 0)
    IN  << top, (u \div 65536) % 256, (u \div 256) % 256, u % 256 >>

UnpackI(b) ==
    LET low == ((b[1] % 128) * 16777216) + (b[2] * 65536) + (b[3] * 256) + b[4]
    IN  IF b[1] >= 128 THEN (low - 2147483647) - 1 ELSE low

(***************************************************************************)
(* getServerErrorMsg                                                       *)
(***************************************************************************)
authServerErrorMsg ==
    << "INVALID_MESSAGE_CODE", "INCORRECT_MESSAGE_LENGTH", "INVALID_PARAMETER",
       "INVALID_SINGLE_TOKEN", "ASCII_DECODE_ERROR" >>

\* variant: the upper bound test is off by one
getServerErrorMsgOffByOne(code) ==
    IF code >= Len(authServerErrorMsg) \/ code < 1
    THEN "UNKNOWN_ERROR_CODE"
    ELSE authServerErrorMsg[(code - 1) + 1]

getServerErrorMsg(code) ==
    IF code > Len(authServerErrorMsg) \/ code < 1
    THEN "UNKNOWN_ERROR_CODE"
    ELSE authServerErrorMsg[(code - 1) + 1]

(***************************************************************************)
(* Command lines the model runs.  Text is a sequence of character codes.   *)
(***************************************************************************)
IdShort == << 97, 108 >>                       \* "al"
IdLong == [i \in 1..(IdWidth + 1) |-> 96 + i]  \* 13 letters, one too many
IdBad == << 233 >>                             \* not ASCII
TokShort == << 84, 48 >>                       \* "T0"
TokLong == [i \in 1..(TokenWidth + 1) |-> 47 + i]  \* 65 characters

Ids == { IdShort, IdLong, IdBad }
Nonces == { 42, -1 }
Tokens == { TokShort, TokLong }
Members == { << IdShort, 1, TokShort >>, << IdLong, 2, TokShort >>,
             << IdShort, 3, TokLong >> }

Groups == UNION { [1..k -> Members] : k \in 0..MaxGroup }

\* validateArgs: gtr has at least one option after <N>; int(options[0]) is
\* any integer the user typed
CommandLines ==
    { [command |-> "itr", id |-> i, nonce |-> x] : i \in Ids, x \in Nonces }
    \cup { [command |-> "itv", id |-> i, nonce |-> 42, token |-> t] :
             i \in Ids, t \in Tokens }
    \cup { [command |-> "gtr", n |-> k, group |-> g] :
             k \in -1..MaxN, g \in Groups \ { << >> } }
    \cup { [command |-> "gtv", group |-> g, token |-> t] :
             g \in Groups, t \in { TokShort } }

(***************************************************************************)
(* The request objects (lines 6-66) as __main__ builds them (378-416).     *)
(***************************************************************************)
IndividualTokenRequest(id, nonce) ==
    [type |-> 1, id |-> id, nonce |-> nonce]

IndividualTokenValidation(id, nonce, token) ==
    [type |-> 3, id |-> id, nonce |-> nonce, token |-> token]

GroupTokenRequest(n, group) ==
    [type |-> 5, n |-> n, group |-> group]

GroupTokenValidation(n, group, token) ==
    [type |-> 7, n |-> n, group |-> group, token |-> token]

Request(a) ==
    CASE a.command = "itr" -> IndividualTokenRequest(a.id, a.nonce)
      [] a.command = "itv" -> IndividualTokenValidation(a.id, a.nonce, a.token)
      [] a.command = "gtr" -> GroupTokenRequest(a.n, a.group)
      [] a.command = "gtv" -> GroupTokenValidation(Len(a.group), a.group, a.token)

(***************************************************************************)
(* Encoding of the four requests.                                          *)
(***************************************************************************)
PackSas(sas) ==
    PackS(ljust(sas[1], IdWidth), IdWidth) \o PackI(sas[2]) \o PackS(sas[3], TokenWidth)

RECURSIVE sasChunk(_)
sasChunk(group) ==
    IF group = << >> THEN << >>
    ELSE PackSas(Head(group)) \o sasChunk(Tail(group))

GroupIsAscii(group) ==
    \A i \in 1..Len(group) : IsAscii(group[i][1]) /\ IsAscii(group[i][3])

\* TRUE when the packing of the request raises nothing
Encodes(a) ==
    LET r == Request(a)
    IN  CASE a.command = "itr" -> IsAscii(r.id)
          [] a.command = "itv" -> IsAscii(r.id) /\ IsAscii(r.token)
          [] a.command = "gtr" -> GroupIsAscii(r.group) /\ r.n >= 0 /\ InH(r.n)
          [] a.command = "gtv" ->
                GroupIsAscii(r.group) /\ r.n >= 0 /\ InH(r.n) /\ IsAscii(r.token)

itrPayload(itr) ==
    PackH(itr.type) \o PackS(ljust(itr.id, IdWidth), IdWidth) \o PackI(itr.nonce)

itvPayload(itv) ==
    PackH(itv.type) \o PackS(ljust(itv.id, IdWidth), IdWidth) \o PackI(itv.nonce)
        \o PackS(itv.token, TokenWidth)

\* variant: the member region is sized by the list, not by the declared n
gtrPayloadByLen(gtr) ==
    PackH(gtr.type) \o PackH(gtr.n)
        \o PackS(sasChunk(gtr.group), SasWidth * Len(gtr.group))

gtrPayload(gtr) ==
    PackH(gtr.type) \o PackH(gtr.n) \o PackS(sasChunk(gtr.group), SasWidth * gtr.n)

gtvPayload(gtv) ==
    PackH(gtv.type) \o PackH(gtv.n) \o PackS(sasChunk(gtv.group), SasWidth * gtv.n)
        \o PackS(gtv.token, TokenWidth)

Payload(a) ==
    LET r == Request(a)
    IN  CASE a.command = "itr" -> itrPayload(r)
          [] a.command = "itv" -> itvPayload(r)
          [] a.command = "gtr" -> gtrPayload(r)
          [] a.command = "gtv" -> gtvPayload(r)

\* length struct.unpack demands of the reply
ExpectedLen(a) ==
    LET r == Request(a)
    IN  CASE a.command = "itr" -> 2 + IdWidth + 4 + TokenWidth
          [] a.command = "itv" -> 2 + IdWidth + 4 + TokenWidth + 1
          [] a.command = "gtr" -> 4 + (SasWidth * r.n) + TokenWidth
          [] a.command = "gtv" -> 4 + (SasWidth * r.n) + TokenWidth + 1

(***************************************************************************)
(* The server: what sock.recv may return for a request.                    *)
(***************************************************************************)
ReplyTypes == { ErrorType, 1, 2 }
ReplyCodes == { -1, 0, 1, 2, 3, 4, 5, 6 }
ServerToken == ljust(<< 84, 48, 75 >>, TokenWidth)     \* "T0K" and 61 spaces

\* short replies: a type field, a code field, cut or padded to len bytes
RawReplies ==
    { Take(PackH(t) \o PackH(c) \o Rep(0, MaxRawLen), len) :
        t \in ReplyTypes, c \in ReplyCodes, len \in 0..MaxRawLen }

\* replies of the success layout: the request echoed, then a token or a
\* status; also one byte short, one byte long, with the error type, with
\* another n field (group commands) and with a byte that is not ASCII in
\* the first text field
FullReplies(a, p) ==
    LET tail == IF a.command \in { "itr", "gtr" } THEN ServerToken ELSE << 0 >>
        body == SubSeq(p, 3, Len(p)) \o tail
        exact == { PackH(t) \o body : t \in { Request(a).type + 1, ErrorType } }
        first == IF a.command \in { "itr", "itv" } THEN 3 ELSE 5
        othern == IF a.command \in { "gtr", "gtv" }
                  THEN { [d EXCEPT ![4] = (d[4] + 1) % 256] : d \in exact }
                  ELSE { }
    IN  exact \cup { SubSeq(d, 1, Len(d) - 1) : d \in exact }
              \cup { d \o << 0 >> : d \in exact }
              \cup othern
              \cup { [d EXCEPT ![first] = 233] : d \in exact }

Replies(a, p) == RawReplies \cup FullReplies(a, p)

(***************************************************************************)
(* Decoding of the four replies (lines 246-250, 274-278, 306-318, 353-365) *)
(***************************************************************************)
Whitespace == { 9, 10, 11, 12, 13, 28, 29, 30, 31, 32 }

RECURSIVE lstrip(_)
lstrip(s) ==
    IF s # << >> /\ Head(s) \in Whitespace THEN lstrip(Tail(s)) ELSE s

RECURSIVE rstrip(_)
rstrip(s) ==
    IF s # << >> /\ s[Len(s)] \in Whitespace
    THEN rstrip(SubSeq(s, 1, Len(s) - 1)) ELSE s

strip(s) == rstrip(lstrip(s))

\* the SAS held at offset off of b: (id stripped, nonce, token as received)
UnpackSas(b, off) ==
    << strip(SubSeq(b, off + 1, off + IdWidth)),
       UnpackI(SubSeq(b, off + IdWidth + 1, off + IdWidth + 4)),
       SubSeq(b, off + IdWidth + 5, off + SasWidth) >>

\* the bytes .decode("ascii") is applied to
DecodedText(a, b) ==
    IF a.command \in { "itr", "itv" }
    THEN SubSeq(b, 3, 2 + IdWidth) \o SubSeq(b, 2 + IdWidth + 5, 2 + SasWidth)
    ELSE SubSeq(b, 5, 4 + (SasWidth * Request(a).n) + TokenWidth)

\* variant: a longer reply is accepted (unpack_from instead of unpack)
DecodesAtLeast(a, b) == Len(b) >= ExpectedLen(a) /\ IsAscii(DecodedText(a, b))

\* TRUE when struct.unpack and the ascii decoding of the reply raise nothing
Decodes(a, b) == Len(b) = ExpectedLen(a) /\ IsAscii(DecodedText(a, b))

\* variant: the member loop stops one short, range(n - 1)
ResponseOffByOne(a, b) ==
    LET n == Request(a).n
        sas == UnpackSas(b, 2)
        group == [i \in 1..(n - 1) |-> UnpackSas(b, 4 + (SasWidth * (i - 1)))]
        gtoken == SubSeq(b, 4 + (SasWidth * n) + 1, 4 + (SasWidth * n) + TokenWidth)
    IN  CASE a.command = "itr" ->
               [kind |-> "IndividualTokenResponse", type |-> UnpackH(b),
                id |-> sas[1], nonce |-> sas[2], token |-> sas[3]]
          [] a.command = "itv" ->
               [kind |-> "IndividualTokenStatus", type |-> UnpackH(b),
                id |-> sas[1], nonce |-> sas[2], token |-> sas[3],
                status |-> b[Len(b)]]
          [] a.command = "gtr" ->
               [kind |-> "GroupTokenResponse", type |-> UnpackH(b),
                n |-> UnpackH(SubSeq(b, 3, 4)), group |-> group, token |-> gtoken]
          [] a.command = "gtv" ->
               [kind |-> "GroupTokenStatus", type |-> UnpackH(b),
                n |-> UnpackH(SubSeq(b, 3, 4)), group |-> group, token |-> gtoken,
                status |-> b[Len(b)]]

Response(a, b) ==
    LET n == Request(a).n
        sas == UnpackSas(b, 2)
        group == [i \in 1..n |-> UnpackSas(b, 4 + (SasWidth * (i - 1)))]
        gtoken == SubSeq(b, 4 + (SasWidth * n) + 1, 4 + (SasWidth * n) + TokenWidth)
    IN  CASE a.command = "itr" ->
               [kind |-> "IndividualTokenResponse", type |-> UnpackH(b),
                id |-> sas[1], nonce |-> sas[2], token |-> sas[3]]
          [] a.command = "itv" ->
               [kind |-> "IndividualTokenStatus", type |-> UnpackH(b),
                id |-> sas[1], nonce |-> sas[2], token |-> sas[3],
                status |-> b[Len(b)]]
          [] a.command = "gtr" ->
               [kind |-> "GroupTokenResponse", type |-> UnpackH(b),
                n |-> UnpackH(SubSeq(b, 3, 4)), group |-> group, token |-> gtoken]
          [] a.command = "gtv" ->
               [kind |-> "GroupTokenStatus", type |-> UnpackH(b),
                n |-> UnpackH(SubSeq(b, 3, 4)), group |-> group, token |-> gtoken,
                status |-> b[Len(b)]]

\* str(int): the decimal digits, with a minus sign when negative
RECURSIVE Digits(_)
Digits(v) ==
    IF v < 10 THEN << 48 + v >> ELSE Digits(v \div 10) \o << 48 + (v % 10) >>

IntToStr(v) ==
    IF v >= 0 THEN Digits(v)
    ELSE IF v = (-2147483647) - 1
         THEN << 45 >> \o Digits(214748364) \o << 56 >>
         ELSE << 45 >> \o Digits(0 - v)

\* IndividualTokenResponse.getStringSAS: f"{id}:{nonce}:{token}"
getStringSAS(r) == r.id \o << 58 >> \o IntToStr(r.nonce) \o << 58 >> \o r.token

(***************************************************************************)
(* The run of the script.                                                  *)
(***************************************************************************)
Init ==
    /\ args \in CommandLines
    /\ pc = "connect"
    /\ payload = << >>
    /\ attempts = 0
    /\ res = << >>
    /\ sendCalls = 0
    /\ recvCalls = 0
    /\ timeouts = 0
    /\ faults = 0
    /\ sent = << >>
    /\ rcvd = << >>
    /\ exitCode = << >>
    /\ outcome = "running"
    /\ errCode = << >>
    /\ errMsg = NoMsg
    /\ result = NoResult
    /\ msgCode = 0
    /\ msgOut = NoMsg
    /\ maxAttempts = DefaultAttempts
    /\ gas = << >>
    /\ built = NoResult

\* exit(code), or the end of the script: the process is over
Exit(code, why) ==
    /\ pc' = "done"
    /\ exitCode' = << code >>
    /\ outcome' = why

\* an exception nothing catches: Python prints a traceback, exit status 1
Uncaught(why) == Exit(1, why)

\* variant: the loop gives up with one attempt left
WhileAttemptsOffByOne(a) == a > 1

\* line 200: while attempts
WhileAttempts(a) == a # 0

\* variant: the timeout handler forgets to count the attempt
OnTimeoutNoDecrement ==
    /\ timeouts' = timeouts + 1
    /\ attempts' = attempts
    /\ pc' = IF WhileAttempts(attempts') THEN "send" ELSE "classify"

\* lines 205-206: the timeout handler, then back to the loop test
OnTimeout ==
    /\ timeouts' = timeouts + 1
    /\ attempts' = attempts - 1
    /\ pc' = IF WhileAttempts(attempts') THEN "send" ELSE "classify"

\* variant: any OSError is retried like a timeout
OnOSErrorRetry ==
    /\ pc' = "send"
    /\ UNCHANGED << exitCode, outcome >>

\* lines 207-209: the handler of any other OSError
OnOSError == Exit(ExitChannel, "ChannelFault")

initConnectionOk ==
    /\ pc = "connect"
    /\ pc' = "encode"
    /\ UNCHANGED << args, maxAttempts, gas, built, faults, payload, attempts, res, sendCalls, recvCalls, timeouts,
                    sent, rcvd, exitCode, outcome, errCode, errMsg, result,
                    msgCode, msgOut >>

initConnectionFail ==
    /\ pc = "connect"
    /\ Exit(ExitSocket, "SocketFailure")
    /\ UNCHANGED << args, maxAttempts, gas, built, faults, payload, attempts, res, sendCalls, recvCalls, timeouts,
                    sent, rcvd, errCode, errMsg, result, msgCode, msgOut >>

\* the packing at the head of the four send* functions raises
EncodeFail ==
    /\ pc = "encode"
    /\ ~Encodes(args)
    /\ Uncaught("EncodingError")
    /\ UNCHANGED << args, maxAttempts, gas, built, faults, payload, attempts, res, sendCalls, recvCalls, timeouts,
                    sent, rcvd, errCode, errMsg, result, msgCode, msgOut >>

\* the packing succeeds and sendPayload is entered (lines 196-200)
EncodeOk ==
    /\ pc = "encode"
    /\ Encodes(args)
    /\ payload' = Payload(args)
    /\ attempts' = maxAttempts
    /\ res' = << >>
    /\ pc' = IF WhileAttempts(attempts') THEN "send" ELSE "classify"
    /\ UNCHANGED << args, maxAttempts, gas, built, faults, sendCalls, recvCalls, timeouts, sent, rcvd, exitCode,
                    outcome, errCode, errMsg, result, msgCode, msgOut >>

\* line 202
SendOk ==
    /\ pc = "send"
    /\ sendCalls < MaxSendCalls
    /\ sendCalls' = sendCalls + 1
    /\ sent' = Append(sent, payload)
    /\ pc' = "recv"
    /\ UNCHANGED << args, maxAttempts, gas, built, faults, payload, attempts, res, recvCalls, timeouts, rcvd,
                    exitCode, outcome, errCode, errMsg, result, msgCode, msgOut >>

SendTimeout ==
    /\ pc = "send"
    /\ sendCalls < MaxSendCalls
    /\ sendCalls' = sendCalls + 1
    /\ OnTimeout
    /\ UNCHANGED << args, maxAttempts, gas, built, faults, payload, res, recvCalls, sent, rcvd, exitCode, outcome,
                    errCode, errMsg, result, msgCode, msgOut >>

SendFault ==
    /\ pc = "send"
    /\ sendCalls < MaxSendCalls
    /\ sendCalls' = sendCalls + 1
    /\ faults' = faults + 1
    /\ OnOSError
    /\ UNCHANGED << args, maxAttempts, gas, built, payload, attempts, res, recvCalls, timeouts, sent, rcvd,
                    errCode, errMsg, result, msgCode, msgOut >>

\* variant: the break after recv is missing
RecvReplyNoBreak ==
    /\ pc = "recv"
    /\ \E d \in Replies(args, payload) :
          /\ res' = Take(d, DefaultBufSize)
          /\ rcvd' = Append(rcvd, Take(d, DefaultBufSize))
    /\ recvCalls' = recvCalls + 1
    /\ pc' = "send"
    /\ UNCHANGED << args, maxAttempts, gas, built, faults, payload, attempts, sendCalls, timeouts, sent, exitCode,
                    outcome, errCode, errMsg, result, msgCode, msgOut >>

\* lines 203-204: a datagram arrives, cut to bufSize bytes; break
RecvReply ==
    /\ pc = "recv"
    /\ \E d \in Replies(args, payload) :
          /\ res' = Take(d, DefaultBufSize)
          /\ rcvd' = Append(rcvd, Take(d, DefaultBufSize))
    /\ recvCalls' = recvCalls + 1
    /\ pc' = "classify"
    /\ UNCHANGED << args, maxAttempts, gas, built, faults, payload, attempts, sendCalls, timeouts, sent, exitCode,
                    outcome, errCode, errMsg, result, msgCode, msgOut >>

RecvTimeout ==
    /\ pc = "recv"
    /\ recvCalls' = recvCalls + 1
    /\ OnTimeout
    /\ UNCHANGED << args, maxAttempts, gas, built, faults, payload, res, sendCalls, sent, rcvd, exitCode, outcome,
                    errCode, errMsg, result, msgCode, msgOut >>

RecvFault ==
    /\ pc = "recv"
    /\ recvCalls' = recvCalls + 1
    /\ faults' = faults + 1
    /\ OnOSError
    /\ UNCHANGED << args, maxAttempts, gas, built, payload, attempts, res, sendCalls, timeouts, sent, rcvd,
                    errCode, errMsg, result, msgCode, msgOut >>

\* variant: the type field is tested without the length
IsServerErrorNoLen(b) == Len(b) >= ErrorLen /\ UnpackH(SubSeq(b, 1, 2)) = ErrorType

\* line 216-219: the reply has the error layout
IsServerError(b) == Len(b) = ErrorLen /\ UnpackH(SubSeq(b, 1, 2)) = ErrorType

\* variant: exit(2) copied from the handler above
NoResponseExit2 ==
    /\ pc = "classify"
    /\ Len(res) = 0
    /\ Exit(ExitChannel, "Exhausted")
    /\ UNCHANGED << args, maxAttempts, gas, built, faults, payload, attempts, res, sendCalls, recvCalls, timeouts,
                    sent, rcvd, errCode, errMsg, result, msgCode, msgOut >>

\* lines 211-213
NoResponse ==
    /\ pc = "classify"
    /\ Len(res) = 0
    /\ Exit(ExitNoResponse, "Exhausted")
    /\ UNCHANGED << args, maxAttempts, gas, built, faults, payload, attempts, res, sendCalls, recvCalls, timeouts,
                    sent, rcvd, errCode, errMsg, result, msgCode, msgOut >>

\* variant: the two unpacked fields are taken in the wrong order
ServerErrorSwapped ==
    /\ pc = "classify"
    /\ Len(res) # 0
    /\ IsServerError(res)
    /\ errCode' = << UnpackH(SubSeq(res, 1, 2)) >>
    /\ errMsg' = getServerErrorMsg(UnpackH(SubSeq(res, 1, 2)))
    /\ Exit(ExitServerError, "ProtocolError")
    /\ UNCHANGED << args, maxAttempts, gas, built, faults, payload, attempts, res, sendCalls, recvCalls, timeouts,
                    sent, rcvd, result, msgCode, msgOut >>

\* lines 216-223
ServerError ==
    /\ pc = "classify"
    /\ Len(res) # 0
    /\ IsServerError(res)
    /\ errCode' = << UnpackH(SubSeq(res, 3, 4)) >>
    /\ errMsg' = getServerErrorMsg(UnpackH(SubSeq(res, 3, 4)))
    /\ Exit(ExitServerError, "ProtocolError")
    /\ UNCHANGED << args, maxAttempts, gas, built, faults, payload, attempts, res, sendCalls, recvCalls, timeouts,
                    sent, rcvd, result, msgCode, msgOut >>

\* line 225
ReturnRes ==
    /\ pc = "classify"
    /\ Len(res) # 0
    /\ ~IsServerError(res)
    /\ pc' = "decode"
    /\ UNCHANGED << args, maxAttempts, gas, built, faults, payload, attempts, res, sendCalls, recvCalls, timeouts,
                    sent, rcvd, exitCode, outcome, errCode, errMsg, result,
                    msgCode, msgOut >>

\* struct.unpack or .decode("ascii") raises in the send* function
DecodeFail ==
    /\ pc = "decode"
    /\ ~Decodes(args, res)
    /\ Uncaught("DecodingError")
    /\ UNCHANGED << args, maxAttempts, gas, built, faults, payload, attempts, res, sendCalls, recvCalls, timeouts,
                    sent, rcvd, errCode, errMsg, result, msgCode, msgOut >>

\* variant: a reply whose type is not the request's type + 1 is refused
DecodeOkTypeChecked ==
    /\ pc = "decode"
    /\ Decodes(args, res)
    /\ IF UnpackH(res) = Request(args).type + 1
       THEN result' = Response(args, res) /\ Exit(ExitOk, "Success")
       ELSE result' = result /\ Uncaught("DecodingError")
    /\ UNCHANGED << args, maxAttempts, gas, built, faults, payload, attempts, res, sendCalls, recvCalls, timeouts,
                    sent, rcvd, errCode, errMsg, msgCode, msgOut >>

\* the send* function returns its record; __main__ prints and ends (421)
DecodeOk ==
    /\ pc = "decode"
    /\ Decodes(args, res)
    /\ result' = Response(args, res)
    /\ Exit(ExitOk, "Success")
    /\ UNCHANGED << args, maxAttempts, gas, built, faults, payload, attempts, res, sendCalls, recvCalls, timeouts,
                    sent, rcvd, errCode, errMsg, msgCode, msgOut >>

Next ==
    \/ initConnectionOk
    \/ initConnectionFail
    \/ EncodeFail
    \/ EncodeOk
    \/ SendOk
    \/ SendTimeout
    \/ SendFault
    \/ RecvReply
    \/ RecvTimeout
    \/ RecvFault
    \/ NoResponse
    \/ ServerError
    \/ ReturnRes
    \/ DecodeFail
    \/ DecodeOk

Spec == Init /\ [][Next]_vars

(***************************************************************************)
(* getServerErrorMsg on its own, over every signed 16-bit code.            *)
(***************************************************************************)
Int16 == -32768..32767

InitMsg ==
    /\ args = [command |-> "none"]
    /\ pc = "lib"
    /\ payload = << >>
    /\ attempts = 0
    /\ res = << >>
    /\ sendCalls = 0
    /\ recvCalls = 0
    /\ timeouts = 0
    /\ faults = 0
    /\ sent = << >>
    /\ rcvd = << >>
    /\ exitCode = << >>
    /\ outcome = "running"
    /\ errCode = << >>
    /\ errMsg = NoMsg
    /\ result = NoResult
    /\ msgCode \in Int16
    /\ msgOut = NoMsg
    /\ maxAttempts = DefaultAttempts
    /\ gas = << >>
    /\ built = NoResult

CallGetServerErrorMsg ==
    /\ pc = "lib"
    /\ msgOut = NoMsg
    /\ msgOut' = getServerErrorMsg(msgCode)
    /\ UNCHANGED << args, maxAttempts, gas, built, pc, payload, attempts, res, sendCalls, recvCalls, timeouts,
                    faults, sent, rcvd, exitCode, outcome, errCode, errMsg, result,
                    msgCode >>

NextMsg == CallGetServerErrorMsg

SpecMsg == InitMsg /\ [][NextMsg]_vars

(***************************************************************************)
(* sendPayload called with any attempts argument (line 194 is a default).  *)
(***************************************************************************)
AttemptsValues == -1..MaxAttemptsArg

InitAny ==
    /\ args \in { [command |-> "itr", id |-> i, nonce |-> 42] : i \in { IdShort, IdBad } }
    /\ pc = "connect"
    /\ payload = << >>
    /\ attempts = 0
    /\ res = << >>
    /\ sendCalls = 0
    /\ recvCalls = 0
    /\ timeouts = 0
    /\ faults = 0
    /\ sent = << >>
    /\ rcvd = << >>
    /\ exitCode = << >>
    /\ outcome = "running"
    /\ errCode = << >>
    /\ errMsg = NoMsg
    /\ result = NoResult
    /\ msgCode = 0
    /\ msgOut = NoMsg
    /\ maxAttempts \in AttemptsValues
    /\ gas = << >>
    /\ built = NoResult

SpecAny == InitAny /\ [][Next]_vars

(***************************************************************************)
(* The gtv branch of __main__ (lines 405-416) on a typed <GAS>.            *)
(***************************************************************************)
\* str.split(sep): cut at every sep, empty pieces kept, at least one piece
RECURSIVE Split(_, _)
Split(s, sep) ==
    IF \E i \in 1..Len(s) : s[i] = sep
    THEN LET i == CHOOSE k \in 1..Len(s) :
                     s[k] = sep /\ \A j \in 1..(k - 1) : s[j] # sep
         IN  << SubSeq(s, 1, i - 1) >> \o Split(SubSeq(s, i + 1, Len(s)), sep)
    ELSE << s >>

\* int(text) of a text without blanks and underscores: an optional sign and
\* at least one decimal digit; ValueError otherwise
IsDigits(t) == Len(t) > 0 /\ \A i \in 1..Len(t) : t[i] \in 48..57

IsInt(t) ==
    IF Len(t) > 0 /\ t[1] \in { 43, 45 } THEN IsDigits(Tail(t)) ELSE IsDigits(t)

RECURSIVE DigitsValue(_)
DigitsValue(t) ==
    IF t = << >> THEN 0
    ELSE (10 * DigitsValue(SubSeq(t, 1, Len(t) - 1))) + (t[Len(t)] - 48)

StrToInt(t) ==
    IF t[1] = 45 THEN 0 - DigitsValue(Tail(t))
    ELSE IF t[1] = 43 THEN DigitsValue(Tail(t))
    ELSE DigitsValue(t)

\* lines 411-412 raise nothing for this entry: data[1] and data[2] exist
\* and data[1] is an integer
SasParses(sas) ==
    LET data == Split(sas, 58)
    IN  Len(data) >= 3 /\ IsInt(data[2])

\* line 412: (data[0], int(data[1]), data[2])
ParseSas(sas) ==
    LET data == Split(sas, 58)
    IN  << data[1], StrToInt(data[2]), data[3] >>

\* lines 408-412: the list built from input[:-1]
gtvGroup(input) == [i \in 1..(Len(input) - 1) |-> ParseSas(input[i])]

\* variant: n counts every piece, the aggregate token included
gtvRequestCountsToken(input) ==
    GroupTokenValidation(Len(input), gtvGroup(input), input[Len(input)])

\* line 415: GroupTokenValidation(len(group), group, input[-1])
gtvRequest(input) ==
    GroupTokenValidation(Len(gtvGroup(input)), gtvGroup(input), input[Len(input)])

\* the pieces a <GAS> is typed from: "al:1:T0", "al:-7:T0:x", "al:1",
\* "al:x:T0", "T0" and the empty piece
GasPieces ==
    { << 97, 108, 58, 49, 58, 84, 48 >>,
      << 97, 108, 58, 45, 55, 58, 84, 48, 58, 120 >>,
      << 97, 108, 58, 49 >>,
      << 97, 108, 58, 120, 58, 84, 48 >>,
      << 84, 48 >>,
      << >> }

RECURSIVE JoinPlus(_)
JoinPlus(pieces) ==
    IF Len(pieces) = 1 THEN pieces[1]
    ELSE pieces[1] \o << 43 >> \o JoinPlus(Tail(pieces))

GasStrings ==
    { JoinPlus(ps) : ps \in UNION { [1..k -> GasPieces] : k \in 1..MaxPieces } }

InitGas ==
    /\ args = [command |-> "gtv"]
    /\ pc = "gtv"
    /\ payload = << >>
    /\ attempts = 0
    /\ res = << >>
    /\ sendCalls = 0
    /\ recvCalls = 0
    /\ timeouts = 0
    /\ faults = 0
    /\ sent = << >>
    /\ rcvd = << >>
    /\ exitCode = << >>
    /\ outcome = "running"
    /\ errCode = << >>
    /\ errMsg = NoMsg
    /\ result = NoResult
    /\ msgCode = 0
    /\ msgOut = NoMsg
    /\ maxAttempts = DefaultAttempts
    /\ gas \in GasStrings
    /\ built = NoResult

\* lines 406-415 build the request
gtvBuild ==
    /\ pc = "gtv"
    /\ LET input == Split(gas, 43)
       IN  /\ \A i \in 1..(Len(input) - 1) : SasParses(input[i])
           /\ built' = gtvRequest(input)
    /\ pc' = "built"
    /\ UNCHANGED << args, maxAttempts, gas, faults, payload, attempts, res, sendCalls,
                    recvCalls, timeouts, sent, rcvd, exitCode, outcome, errCode,
                    errMsg, result, msgCode, msgOut >>

\* line 412 raises IndexError or ValueError, which nothing catches
gtvRaise ==
    /\ pc = "gtv"
    /\ LET input == Split(gas, 43)
       IN  \E i \in 1..(Len(input) - 1) : ~SasParses(input[i])
    /\ Uncaught("ArgumentError")
    /\ UNCHANGED << args, maxAttempts, gas, built, faults, payload, attempts, res,
                    sendCalls, recvCalls, timeouts, sent, rcvd, errCode, errMsg,
                    result, msgCode, msgOut >>

NextGas ==
    \/ gtvBuild
    \/ gtvRaise

SpecGas == InitGas /\ [][NextGas]_vars

(***************************************************************************)
(* Properties.                                                             *)
(***************************************************************************)
\* the table of section 6 of the specification
ExpectedMsg(c) ==
    CASE c = 1 -> "INVALID_MESSAGE_CODE"
      [] c = 2 -> "INCORRECT_MESSAGE_LENGTH"
      [] c = 3 -> "INVALID_PARAMETER"
      [] c = 4 -> "INVALID_SINGLE_TOKEN"
      [] c = 5 -> "ASCII_DECODE_ERROR"
      [] OTHER -> "UNKNOWN_ERROR_CODE"

\* a datagram of exactly 4 bytes whose first two bytes are 0x01 0x00
ErrLayout(d) == Len(d) = 4 /\ d[1] = 1 /\ d[2] = 0

\* the signed value of two big-endian bytes
Signed16(hi, lo) ==
    IF hi >= 128 THEN ((hi * 256) + lo) - 65536 ELSE (hi * 256) + lo

\* every send so far was followed by a receive, and every receive timed out
AllTimedOut == sendCalls = recvCalls /\ recvCalls = timeouts

LoopOver == pc \in { "classify", "decode", "done" } /\ sendCalls > 0

\* C1: when every attempt's receive times out, the request is sent exactly
\* maxAttempts (5) times, the call then ends with exit code 3 (Exhausted),
\* and the channel-fault exit (code 2) is not taken on that path.
C1_ExhaustedAfterMaxAttempts ==
    AllTimedOut =>
        /\ outcome # "ChannelFault"
        /\ exitCode # << ExitChannel >>
        /\ pc = "send" => sendCalls < DefaultAttempts
        /\ pc # "decode"
        /\ LoopOver =>
              /\ sendCalls = DefaultAttempts
              /\ Len(sent) = DefaultAttempts
              /\ attempts = 0
              /\ pc = "done" => exitCode = << ExitNoResponse >> /\ outcome = "Exhausted"

C1_Witness ==
    /\ pc = "done"
    /\ outcome = "Exhausted"
    /\ recvCalls = DefaultAttempts
    /\ timeouts = recvCalls
    /\ Len(sent) = DefaultAttempts

\* C2: an OSError other than a timeout, raised by send or recv on any
\* attempt, ends the run at once with exit code 2: nothing is sent or
\* received after it and it does not decrement the attempts left.
C2_FaultAbortsAtOnce ==
    faults > 0 =>
        /\ faults = 1
        /\ pc = "done"
        /\ exitCode = << ExitChannel >>
        /\ outcome = "ChannelFault"
        /\ attempts = DefaultAttempts - timeouts
        /\ rcvd = << >>
        /\ sendCalls + recvCalls <= (2 * timeouts) + 2

C2_Witness ==
    /\ faults = 1
    /\ exitCode = << ExitChannel >>
    /\ attempts = 3
    /\ recvCalls = 3

\* C3: as soon as recv returns a datagram on attempt k the loop stops: only
\* that one datagram is received, res is exactly that datagram, and the
\* number of send calls is k, the number of earlier timeouts plus one.
C3_FirstReplyEndsLoop ==
    rcvd # << >> =>
        /\ Len(rcvd) = 1
        /\ res = rcvd[1]
        /\ pc \in { "classify", "decode", "done" }
        /\ sendCalls = timeouts + 1
        /\ sendCalls = (DefaultAttempts - attempts) + 1
        /\ recvCalls <= sendCalls
        /\ faults = 0

C3_Witness ==
    /\ rcvd # << >>
    /\ pc = "decode"
    /\ timeouts = 2
    /\ sendCalls = 3
    /\ res = rcvd[1]

\* C4: a reply is treated as a server error (exit code 4) exactly when it is
\* 4 bytes long with a leading 16-bit field of 256; every other reply of
\* non-zero length is returned unchanged to the calling send* function.
C4_ErrorLayoutIffLen4Type256 ==
    (rcvd # << >> /\ pc \in { "decode", "done" }) =>
        /\ (exitCode = << ExitServerError >>) <=> ErrLayout(rcvd[1])
        /\ (outcome = "ProtocolError") <=> ErrLayout(rcvd[1])
        /\ (Len(rcvd[1]) # 0 /\ ~ErrLayout(rcvd[1])) =>
              /\ res = rcvd[1]
              /\ pc = "decode" \/ outcome \in { "Success", "DecodingError" }

C4_Witness ==
    /\ pc = "decode"
    /\ Len(res) = 5
    /\ res[1] = 1
    /\ res[2] = 0

\* C5: exit code 3 is reached only after all the attempts timed out and no
\* datagram was received.
C5_ExhaustedOnlyWithoutReply ==
    exitCode = << ExitNoResponse >> =>
        /\ timeouts = DefaultAttempts
        /\ attempts = 0
        /\ rcvd = << >>

\* C6: a reply of the error layout with code c ends the run as a protocol
\* error carrying c and the message of c; the request is not sent again
\* although attempts remain, and no response record is built.
C6_ProtocolErrorCarriesCode ==
    (rcvd # << >> /\ ErrLayout(rcvd[1])) =>
        /\ pc \in { "classify", "done" }
        /\ result = NoResult
        /\ sendCalls = timeouts + 1
        /\ attempts = DefaultAttempts - timeouts
        /\ pc = "done" =>
              /\ outcome = "ProtocolError"
              /\ exitCode = << ExitServerError >>
              /\ errCode = << Signed16(rcvd[1][3], rcvd[1][4]) >>
              /\ errMsg = ExpectedMsg(Signed16(rcvd[1][3], rcvd[1][4]))

C6_Witness ==
    /\ pc = "done"
    /\ rcvd = << << 1, 0, 0, 3 >> >>
    /\ errCode = << 3 >>
    /\ errMsg = "INVALID_PARAMETER"
    /\ attempts = DefaultAttempts
    /\ sendCalls = 1

\* C7: getServerErrorMsg maps 1..5 to the five messages of the table and
\* every other signed 16-bit code to the unknown-error message.
C7_ErrorMsgTable ==
    msgOut # NoMsg =>
        /\ msgOut = ExpectedMsg(msgCode)
        /\ msgCode \notin 1..5 => msgOut = "UNKNOWN_ERROR_CODE"

C7_Witness ==
    /\ msgCode = 5
    /\ msgOut = "ASCII_DECODE_ERROR"

FourFailures == { "SocketFailure", "ChannelFault", "Exhausted", "ProtocolError" }

ExitCodeOf(o) ==
    CASE o = "SocketFailure" -> ExitSocket
      [] o = "ChannelFault" -> ExitChannel
      [] o = "Exhausted" -> ExitNoResponse
      [] o = "ProtocolError" -> ExitServerError

C9_GroupLengthMatchesN ==
    (args.command \in { "gtr", "gtv" } /\ sent # << >>) =>
        /\ Len(args.group) = Request(args).n
        /\ \A i \in 1..Len(sent) :
              SubSeq(sent[i], 5, 4 + (SasWidth * Request(args).n)) = sasChunk(args.group)

\* C10: no datagram carrying a truncated id or token is sent: a request with
\* an id longer than 12 or a token longer than 64 fails before the send.
C10_NoTruncatedField ==
    sent # << >> =>
        /\ args.command \in { "itr", "itv" } => Len(args.id) <= IdWidth
        /\ args.command \in { "itv", "gtv" } => Len(args.token) <= TokenWidth
        /\ args.command \in { "gtr", "gtv" } =>
              \A i \in 1..Len(args.group) :
                  /\ Len(args.group[i][1]) <= IdWidth
                  /\ Len(args.group[i][3]) <= TokenWidth

\* C11: decoding an 82-byte individual reply whose id and token fields are
\* space-padded gives the unpadded id and token, so that the SAS string is
\* id:nonce:token without padding.
C11_SasIsTrimmed ==
    (outcome = "Success" /\ args.command = "itr") =>
        LET d == rcvd[1]
            id == strip(SubSeq(d, 3, 2 + IdWidth))
            nonce == UnpackI(SubSeq(d, 2 + IdWidth + 1, 2 + IdWidth + 4))
            token == strip(SubSeq(d, 2 + IdWidth + 5, 2 + SasWidth))
        IN  /\ result.id = id
            /\ result.token = token
            /\ getStringSAS(result) = id \o << 58 >> \o IntToStr(nonce) \o << 58 >> \o token

\* every member of the list fits its fields
GroupFits(group) ==
    \A i \in 1..Len(group) :
        Len(group[i][1]) <= IdWidth /\ Len(group[i][3]) <= TokenWidth

\* C12: for a group of n members that fit their fields, encoding it and
\* decoding a reply that carries the encoded member region gives back the
\* same list: same length, same order, equal (id, nonce, token) triples.
C12_GroupRoundTrip ==
    ( /\ outcome = "Success"
      /\ args.command \in { "gtr", "gtv" }
      /\ Len(args.group) = Request(args).n
      /\ GroupFits(args.group)
      /\ SubSeq(rcvd[1], 5, 4 + (SasWidth * Request(args).n)) = sasChunk(args.group) )
    => result.group = args.group

\* the datagram length of a command by the layout table (section 3)
RequestLen(a) ==
    CASE a.command = "itr" -> 18
      [] a.command = "itv" -> 82
      [] a.command = "gtr" -> 4 + (80 * a.n)
      [] a.command = "gtv" -> 4 + (80 * Len(a.group)) + 64

\* C13: every datagram sent has the length of its request type, 18, 82,
\* 4+80n or 4+80n+64 with n the declared group size, and each member that
\* is carried occupies exactly 80 bytes of the group region.
C13_DatagramLengths ==
    \A i \in 1..Len(sent) :
        /\ Len(sent[i]) = RequestLen(args)
        /\ args.command \in { "gtr", "gtv" } =>
              \A j \in 1..Len(args.group) :
                  j <= Request(args).n =>
                      /\ Len(PackSas(args.group[j])) = 80
                      /\ SubSeq(sent[i], 4 + (80 * (j - 1)) + 1, 4 + (80 * j))
                            = PackSas(args.group[j])

C13_Witness ==
    /\ sent # << >>
    /\ args.command = "gtr"
    /\ args.n = 2
    /\ Len(args.group) = 1
    /\ Len(sent[1]) = 164

\* the reply length of a command by the layout table (section 3)
SuccessLen(a) ==
    CASE a.command = "itr" -> 82
      [] a.command = "itv" -> 83
      [] a.command = "gtr" -> 4 + (80 * a.n) + 64
      [] a.command = "gtv" -> 4 + (80 * Len(a.group)) + 65

\* C15: a non-empty reply that is not the error layout and whose length is
\* not the success length of the request ends the run in a decoding
\* failure: the request is not sent again and no response record is built.
C15_WrongLengthFailsDecoding ==
    ( /\ rcvd # << >>
      /\ Len(rcvd[1]) # 0
      /\ ~ErrLayout(rcvd[1])
      /\ Len(rcvd[1]) # SuccessLen(args) )
    =>  /\ result = NoResult
        /\ sendCalls = timeouts + 1
        /\ Len(rcvd) = 1
        /\ pc = "done" => outcome = "DecodingError" /\ exitCode = << 1 >>

C15_Witness ==
    /\ pc = "done"
    /\ outcome = "DecodingError"
    /\ args.command = "gtr"
    /\ Len(rcvd[1]) = SuccessLen(args) + 1
    /\ attempts = DefaultAttempts - 1

\* the text fields of a reply of the success length hold only ASCII bytes
TextIsAscii(a, d) ==
    IF a.command \in { "itr", "itv" }
    THEN IsAscii(SubSeq(d, 3, 14)) /\ IsAscii(SubSeq(d, 19, 82))
    ELSE IsAscii(SubSeq(d, 5, Len(d) - (IF a.command = "gtv" THEN 1 ELSE 0)))

\* C16: the type field of a reply is not enforced: whether a reply of the
\* success length is decoded into a response record does not depend on its
\* type field (it is decoded exactly when its text fields are ASCII), a type
\* other than request type + 1, 256 included, is accepted, and the record's
\* type is the value found in the reply.
C16_TypeNotEnforced ==
    ( /\ rcvd # << >>
      /\ Len(rcvd[1]) = SuccessLen(args)
      /\ pc = "done" )
    =>  /\ outcome = "Success" <=> TextIsAscii(args, rcvd[1])
        /\ outcome = "Success" =>
              /\ result # NoResult
              /\ result.type = Signed16(rcvd[1][1], rcvd[1][2])

C16_Witness ==
    /\ outcome = "Success"
    /\ args.command = "itr"
    /\ result.type = 256
    /\ result.type # Request(args).type + 1

\* C17: a decoded group response or group status holds exactly n members,
\* n being the declared size of the request sent; the record's n is the n
\* field of the reply, copied unchecked, so it may differ from the length
\* of the record's group list.
C17_GroupHasDeclaredSize ==
    (outcome = "Success" /\ args.command \in { "gtr", "gtv" }) =>
        /\ Len(result.group) = (IF args.command = "gtr" THEN args.n ELSE Len(args.group))
        /\ result.n = Signed16(rcvd[1][3], rcvd[1][4])

C17_Witness ==
    /\ outcome = "Success"
    /\ args.command = "gtr"
    /\ Len(result.group) = 2
    /\ result.n = 3

\* C18: within one sendPayload call the send calls minus the timeouts is 0
\* or 1, and 0 whenever the next step is a send; the attempts left are
\* maxAttempts minus the timeouts; every send carries the same payload.
C18_OneSendPerAttempt ==
    payload # << >> =>
        /\ sendCalls - timeouts \in { 0, 1 }
        /\ pc = "send" => sendCalls = timeouts
        /\ attempts = maxAttempts - timeouts
        /\ Len(sent) <= sendCalls
        /\ payload = Payload(args)
        /\ \A i \in 1..Len(sent) : sent[i] = payload

C18_Witness ==
    /\ pc = "recv"
    /\ timeouts = 2
    /\ sendCalls = 3
    /\ Len(sent) = 3
    /\ attempts = 3

\* C14: for every value of the attempts argument a call of sendPayload
\* makes at most that many sends (none when it is not positive) before it
\* reaches a terminal outcome.
C14_SendsBoundedByAttempts ==
    sendCalls <= (IF maxAttempts > 0 THEN maxAttempts ELSE 0)

\* the number of '+' characters of the typed <GAS>
CountPlus == Cardinality({ i \in 1..Len(gas) : gas[i] = 43 })

\* C19: the group validation request built by the gtv command has n equal
\* to the number of '+'-separated entries before the last one, which is
\* also the length of its group; the last entry is its token.
C19_GtvSizeFromInput ==
    built # NoResult =>
        /\ built.n = CountPlus
        /\ Len(built.group) = built.n
        /\ built.type = 7
        /\ \A i \in 1..Len(built.token) : built.token[i] # 43
        /\ built.token = SubSeq(gas, (Len(gas) - Len(built.token)) + 1, Len(gas))
        /\ built.n > 0 => gas[Len(gas) - Len(built.token)] = 43

C19_Witness ==
    /\ built # NoResult
    /\ built.n = 2
    /\ built.group[2][2] = -7
    /\ built.token = << 84, 48 >>

====
